---- MODULE Spec2Model ----
(***************************************************************************)
(* A model of mongomock's GridFS file objects                              *)
(* (src/mongomock/gridfs/grid_file.py): GridIn, the chunked writer, and    *)
(* GridOut, the chunked reader, over the "files" and "chunks" collections  *)
(* of one bucket.                                                          *)
(*                                                                         *)
(* Every method is an operator from the state it reads to the state it     *)
(* leaves and the exception it raises ("ok" when it returns).  A Python    *)
(* exception leaves every assignment made before the raise in place, and   *)
(* the operators keep them too.  The interpreter is Python 3               *)
(* (bson/py3compat.py: StringIO is io.BytesIO).                            *)
(***************************************************************************)
EXTENDS Integers, Sequences, FiniteSets, TLC

VARIABLES
    chunks,     \* the fs.chunks collection: documents in insertion order
    files,      \* the fs.files collection: documents in insertion order
    gin,        \* gin[w]: the GridIn object w
    gout,       \* gout[r]: the GridOut object r
    giter,      \* giter[r]: the GridOutIterator made from reader r, and what it yielded
    log,        \* log[w]: what writer w was asked to do so far (history)
    orig,       \* the chunks collection as the writers left it (history)
    res         \* the last call: its name, arguments, result and exception (history)

vars == <<chunks, files, gin, gout, giter, log, orig, res>>

----------------------------------------------------------------------------
(* Bounds of the model.                                                    *)

\* an exhausted iterator is stepped MaxStops times more
MaxStops == 2
\* a writer whose attributes are set is given at most MaxAttrLen bytes
MaxAttrLen == 2
\* a file read by two readers at once holds at most MaxSharedFile bytes, in
\* chunks of 1..MaxSharedChunk bytes
MaxSharedFile == 2
MaxSharedChunk == 2
\* read() calls a data source answers before it raises; bytes of one put()
MaxSourceReads == 2
MaxPut == 2
\* bytes and calls of one session fed from file-like data
MaxStreamLen == 3
MaxStreamWrites == 2
\* chunk sizes range over 1..MaxChunk
MaxChunk == 3
\* a writer is given at most MaxLen bytes in all
MaxLen == 5
\* read() sizes range over -1..MaxRead
MaxRead == 3
\* a writer's write() is called at most MaxWrites times
MaxWrites == 3
\* two writers racing for one _id are given at most MaxRaceLen bytes each
MaxRaceLen == 2
\* and their chunk sizes range over 1..MaxRaceChunk
MaxRaceChunk == 2
\* a file handed to the readers holds at most MaxFile bytes
MaxFile == 3
\* a writer's close() is called again after at most MaxFailedCloses failures
MaxFailedCloses == 2
\* a seek() never takes the cursor further than MaxPos
MaxPos == 4
\* at most MaxExtra chunk documents are added to a finalized file from outside
MaxExtra == 2
\* files read line by line hold at most MaxLineFile bytes
MaxLineFile == 4

----------------------------------------------------------------------------
(* Bytes, byte strings and the Python helpers the code leans on.           *)

NEWLN == 10
Byte == {NEWLN, 97}
EMPTY == <<>>

Min(a, b) == IF a < b THEN a ELSE b
Max(a, b) == IF a > b THEN a ELSE b

\* BytesIO(data).read(n) for n >= 0, and what it leaves unread
Take(s, n) == SubSeq(s, 1, Min(n, Len(s)))
Drop(s, n) == SubSeq(s, Min(n, Len(s)) + 1, Len(s))

\* math.ceil(length / float(chunk_size)) for length >= 0, chunk_size >= 1
CeilDiv(a, b) == (a + b - 1) \div b

BytesUpTo(n) == UNION {[1..k -> Byte] : k \in 0..n}

Writers == {1, 2}
Readers == {1, 2}
\* the _id every writer of the model is given, and the _id of a bystander file
FileId == 1
OtherId == 2

----------------------------------------------------------------------------
(* The collaborator: a collection of the document store.  find_one returns *)
(* the first matching document in insertion order, as a sequence of zero   *)
(* or one documents; insert_one refuses a document that breaks a unique    *)
(* index ((files_id, n) on chunks, which GridIn.__ensure_indexes creates   *)
(* on the empty collection before the first insert; _id on files).         *)

\* a query is a sequence of <<field, "eq" or "gte", value>>, all to be met
Matches(d, query) ==
    \A i \in 1..Len(query) :
        IF query[i][2] = "gte" THEN d[query[i][1]] >= query[i][3]
        ELSE d[query[i][1]] = query[i][3]

find_one(coll, query) ==
    LET hits == SelectSeq(coll, LAMBDA d : Matches(d, query)) IN
    IF hits = <<>> THEN <<>> ELSE <<Head(hits)>>

delete_many(coll, query) ==
    SelectSeq(coll, LAMBDA d : ~Matches(d, query))

\* update_one(query, {"$set": {name: value}}): the first matching document
update_one(coll, query, name, value) ==
    LET hits == {i \in 1..Len(coll) : Matches(coll[i], query)} IN
    IF hits = {} THEN coll
    ELSE LET first == CHOOSE i \in hits : \A j \in hits : i <= j
         IN  [coll EXCEPT ![first] = (name :> value) @@ @]

ChunkDuplicate(coll, doc) ==
    \E i \in 1..Len(coll) : coll[i].files_id = doc.files_id /\ coll[i].n = doc.n

FileDuplicate(coll, doc) ==
    \E i \in 1..Len(coll) : coll[i]["_id"] = doc["_id"]

ChunksOf(coll, id) == SelectSeq(coll, LAMBDA d : d.files_id = id)
FilesOf(coll, id) == SelectSeq(coll, LAMBDA d : d["_id"] = id)

----------------------------------------------------------------------------
(* hashlib.md5: the accumulator is the bytes fed to it so far, in order;   *)
(* hexdigest() is the digest of exactly those bytes.                       *)

md5_new == [kind |-> "md5", fed |-> EMPTY]
md5_update(m, data) == [m EXCEPT !.fed = @ \o data]
md5_hexdigest(m) == [kind |-> "hexdigest", fed |-> m.fed]
\* the digest of a byte string hashed in one piece
md5_of(data) == md5_hexdigest(md5_update(md5_new, data))

----------------------------------------------------------------------------
(* Bind(v, F) is F(v) with v evaluated once: the value of one statement    *)
(* handed to the statements after it.                                      *)

Bind(v, F(_)) == CHOOSE y \in {F(u) : u \in {v}} : TRUE

----------------------------------------------------------------------------
(* GridIn.  A call works on s = [w: the object, chunks, files, err].       *)

GridIn_init(id, chunk_size) ==
    [file |-> ("_id" :> id) @@ ("chunkSize" :> chunk_size) @@ ("md5" :> md5_new),
     buffer |-> EMPTY,
     position |-> 0,
     chunk_number |-> 0,
     closed |-> FALSE]

Raise(s, e) == [s EXCEPT !.err = e]

\* the properties of the class: those without a setter, and the field of the
\* file document behind each of those with one
ReadOnlyProperties == {"_id", "length", "chunk_size", "upload_date", "md5"}
PropertyField(name) ==
    IF name \in {"filename", "name"} THEN "filename" ELSE "contentType"

\* setattr(writer, name, value) for a property of the class or a name that is
\* no attribute of the writer yet (__setattr__ and the setter of
\* _grid_in_property)
GridIn_setattr(s, name, value) ==
    IF name \in ReadOnlyProperties THEN Raise(s, "AttributeError")
    ELSE IF name \in {"filename", "name", "content_type"}
    THEN Bind(IF s.w.closed
              THEN [s EXCEPT !.files = update_one(@, <<<<"_id", "eq", s.w.file["_id"]>>>>,
                                                  PropertyField(name), value)]
              ELSE s,
              LAMBDA s1 : [s1 EXCEPT !.w.file = (PropertyField(name) :> value) @@ @])
    ELSE Bind([s EXCEPT !.w.file = (name :> value) @@ @], LAMBDA s1 :
              IF s1.w.closed
              THEN [s1 EXCEPT !.files = update_one(@, <<<<"_id", "eq", s1.w.file["_id"]>>>>,
                                                   name, value)]
              ELSE s1)

\* abort() that forgets to mark the writer closed
GridIn_abort_open(s) ==
    [s EXCEPT !.chunks = delete_many(@, <<<<"files_id", "eq", s.w.file["_id"]>>>>),
              !.files = delete_many(@, <<<<"_id", "eq", s.w.file["_id"]>>>>)]

GridIn_abort(s) ==
    [s EXCEPT !.chunks = delete_many(@, <<<<"files_id", "eq", s.w.file["_id"]>>>>),
              !.files = delete_many(@, <<<<"_id", "eq", s.w.file["_id"]>>>>),
              !.w.closed = TRUE]

\* __flush_data that advances the position by a whole chunk size
GridIn_flush_data_whole(s, data) ==
    IF s.w.file["md5"].kind # "md5"
    THEN Raise(s, "AttributeError")
    ELSE Bind([s EXCEPT !.w.file = [@ EXCEPT !["md5"] = md5_update(@, data)]],
              LAMBDA s1 :
        IF data = EMPTY THEN s1
        ELSE IF Len(data) > s.w.file["chunkSize"] THEN Raise(s1, "AssertionError")
        ELSE Bind([files_id |-> s.w.file["_id"], n |-> s.w.chunk_number, data |-> data],
                  LAMBDA chunk :
            IF ChunkDuplicate(s1.chunks, chunk) THEN Raise(s1, "FileExists")
            ELSE [s1 EXCEPT !.chunks = Append(@, chunk),
                            !.w.chunk_number = @ + 1,
                            !.w.position = @ + s.w.file["chunkSize"]]))

GridIn_flush_data(s, data) ==
    IF s.w.file["md5"].kind # "md5"
    THEN Raise(s, "AttributeError")    \* str has no update()
    ELSE Bind([s EXCEPT !.w.file = [@ EXCEPT !["md5"] = md5_update(@, data)]],
              LAMBDA s1 :
        IF data = EMPTY THEN s1
        ELSE IF Len(data) > s.w.file["chunkSize"] THEN Raise(s1, "AssertionError")
        ELSE Bind([files_id |-> s.w.file["_id"], n |-> s.w.chunk_number, data |-> data],
                  LAMBDA chunk :
            IF ChunkDuplicate(s1.chunks, chunk) THEN Raise(s1, "FileExists")
            ELSE [s1 EXCEPT !.chunks = Append(@, chunk),
                            !.w.chunk_number = @ + 1,
                            !.w.position = @ + Len(data)]))

\* __flush_buffer that keeps the flushed bytes in the buffer
GridIn_flush_buffer_keep(s) == GridIn_flush_data(s, s.w.buffer)

GridIn_flush_buffer(s) ==
    Bind(GridIn_flush_data(s, s.w.buffer), LAMBDA s1 :
        IF s1.err # "ok" THEN s1 ELSE [s1 EXCEPT !.w.buffer = EMPTY])

\* self._file once __flush has set md5, length (and uploadDate, which the model
\* leaves out: nothing reads it back)
FinalFile(w) ==
    [k \in DOMAIN w.file \union {"length"} |->
        IF k = "md5" THEN md5_hexdigest(w.file["md5"])
        ELSE IF k = "length" THEN w.position
        ELSE w.file[k]]

\* __flush that takes the digest before the buffer is flushed
GridIn_flush_early(s) ==
    Bind(md5_hexdigest(s.w.file["md5"]), LAMBDA digest :
    Bind(GridIn_flush_buffer(s), LAMBDA s1 :
        IF s1.err # "ok" THEN s1
        ELSE Bind([s1 EXCEPT !.w.file = [FinalFile(s1.w) EXCEPT !["md5"] = digest]],
                  LAMBDA s2 :
            IF FileDuplicate(s2.files, s2.w.file) THEN Raise(s2, "FileExists")
            ELSE [s2 EXCEPT !.files = Append(@, s2.w.file)])))

\* __flush that counts the buffer in the length without storing it as a chunk
GridIn_flush_unflushed(s) ==
    Bind([s EXCEPT !.w.file = [FinalFile(s.w) EXCEPT !["length"] = @ + Len(s.w.buffer)]],
         LAMBDA s2 :
        IF FileDuplicate(s2.files, s2.w.file) THEN Raise(s2, "FileExists")
        ELSE [s2 EXCEPT !.files = Append(@, s2.w.file)])

\* __flush that stores the file document whether or not its _id is taken
GridIn_flush_replace(s) ==
    Bind(GridIn_flush_buffer(s), LAMBDA s1 :
        IF s1.err # "ok" THEN s1
        ELSE Bind([s1 EXCEPT !.w.file = FinalFile(s1.w)], LAMBDA s2 :
            [s2 EXCEPT !.files = Append(@, s2.w.file)]))

GridIn_flush(s) ==
    Bind(GridIn_flush_buffer(s), LAMBDA s1 :
        IF s1.err # "ok" THEN s1
        ELSE Bind([s1 EXCEPT !.w.file = FinalFile(s1.w)], LAMBDA s2 :
            IF FileDuplicate(s2.files, s2.w.file) THEN Raise(s2, "FileExists")
            ELSE [s2 EXCEPT !.files = Append(@, s2.w.file)]))

\* close() that flushes whether or not the writer is closed already
GridIn_close_again(s) ==
    Bind(GridIn_flush(s), LAMBDA s1 :
        IF s1.err # "ok" THEN s1 ELSE [s1 EXCEPT !.w.closed = TRUE])

GridIn_close(s) ==
    IF s.w.closed THEN s
    ELSE Bind(GridIn_flush(s), LAMBDA s1 :
            IF s1.err # "ok" THEN s1 ELSE [s1 EXCEPT !.w.closed = TRUE])

\* the loop of write() that flushes whatever a read returns, full chunk or not
RECURSIVE WriteFull_any(_, _)
WriteFull_any(s, data) ==
    Bind(Take(data, s.w.file["chunkSize"]), LAMBDA to_write :
        IF to_write # EMPTY
        THEN Bind(GridIn_flush_data(s, to_write), LAMBDA s1 :
                IF s1.err # "ok" THEN s1
                ELSE Bind(Drop(data, s.w.file["chunkSize"]), LAMBDA rest :
                        WriteFull_any(s1, rest)))
        ELSE [s EXCEPT !.w.buffer = @ \o to_write])

\* the loop of write(): flush every full chunk read from the data, buffer the rest
RECURSIVE WriteFull(_, _)
WriteFull(s, data) ==
    Bind(Take(data, s.w.file["chunkSize"]), LAMBDA to_write :
        IF to_write # EMPTY /\ Len(to_write) = s.w.file["chunkSize"]
        THEN Bind(GridIn_flush_data(s, to_write), LAMBDA s1 :
                IF s1.err # "ok" THEN s1
                ELSE Bind(Drop(data, s.w.file["chunkSize"]), LAMBDA rest :
                        WriteFull(s1, rest)))
        ELSE [s EXCEPT !.w.buffer = @ \o to_write])

\* write() that does not look at _closed
GridIn_write_unchecked(s, data) ==
    IF Len(s.w.buffer) > 0
    THEN LET space == s.w.file["chunkSize"] - Len(s.w.buffer) IN
         Bind(IF space # 0 THEN Take(data, space) ELSE EMPTY, LAMBDA to_write :
         Bind([s EXCEPT !.w.buffer = @ \o to_write], LAMBDA s1 :
             IF space # 0 /\ Len(to_write) < space THEN s1
             ELSE Bind(GridIn_flush_buffer(s1), LAMBDA s2 :
                     IF s2.err # "ok" THEN s2
                     ELSE Bind(Drop(data, Len(to_write)), LAMBDA rest :
                             WriteFull(s2, rest)))))
    ELSE WriteFull(s, data)

GridIn_write(s, data) ==
    IF s.w.closed THEN Raise(s, "ValueError")
    ELSE IF Len(s.w.buffer) > 0
    THEN LET space == s.w.file["chunkSize"] - Len(s.w.buffer) IN
         Bind(IF space # 0 THEN Take(data, space) ELSE EMPTY, LAMBDA to_write :
         Bind([s EXCEPT !.w.buffer = @ \o to_write], LAMBDA s1 :
             IF space # 0 /\ Len(to_write) < space THEN s1
             ELSE Bind(GridIn_flush_buffer(s1), LAMBDA s2 :
                     IF s2.err # "ok" THEN s2
                     ELSE Bind(Drop(data, Len(to_write)), LAMBDA rest :
                             WriteFull(s2, rest)))))
    ELSE WriteFull(s, data)

\* write(data) with a file-like data: its read(n) hands out the next n bytes
\* of src, and raises on the call that comes after `fail` calls that returned
\* (NoFail: on none).  The loop after the top-up, grid_file.py:263-266.
RECURSIVE WriteFull_from(_, _, _)
WriteFull_from(s, src, fail) ==
    IF fail = 0 THEN Raise(s, "SourceError")
    ELSE Bind(Take(src, s.w.file["chunkSize"]), LAMBDA to_write :
            IF to_write # EMPTY /\ Len(to_write) = s.w.file["chunkSize"]
            THEN Bind(GridIn_flush_data(s, to_write), LAMBDA s1 :
                    IF s1.err # "ok" THEN s1
                    ELSE Bind(Drop(src, s.w.file["chunkSize"]), LAMBDA rest :
                            WriteFull_from(s1, rest, fail - 1)))
            ELSE [s EXCEPT !.w.buffer = @ \o to_write])

GridIn_write_from(s, src, fail) ==
    IF s.w.closed THEN Raise(s, "ValueError")
    ELSE IF Len(s.w.buffer) > 0
    THEN LET space == s.w.file["chunkSize"] - Len(s.w.buffer) IN
         IF space # 0 /\ fail = 0 THEN Raise(GridIn_abort(s), "SourceError")
         ELSE
         Bind(IF space # 0 THEN Take(src, space) ELSE EMPTY, LAMBDA to_write :
         Bind([s EXCEPT !.w.buffer = @ \o to_write], LAMBDA s1 :
             IF space # 0 /\ Len(to_write) < space THEN s1
             ELSE Bind(GridIn_flush_buffer(s1), LAMBDA s2 :
                     IF s2.err # "ok" THEN s2
                     ELSE Bind(Drop(src, Len(to_write)), LAMBDA rest :
                             WriteFull_from(s2, rest,
                                            IF space # 0 THEN fail - 1 ELSE fail)))))
    ELSE WriteFull_from(s, src, fail)

\* MockGridFS.put(data, _id=id, chunk_size=c): write, and close in the finally
\* block; an exception of close() replaces the one of write()
MockGridFS_put(id, c, src, fail, ch, fl) ==
    Bind(GridIn_write_from([w |-> GridIn_init(id, c), chunks |-> ch,
                            files |-> fl, err |-> "ok"], src, fail), LAMBDA s1 :
    Bind(GridIn_close([s1 EXCEPT !.err = "ok"]), LAMBDA s2 :
        IF s2.err # "ok" THEN s2 ELSE [s2 EXCEPT !.err = s1.err]))

----------------------------------------------------------------------------
(* GridOut.  A call works on s = [g: the object, chunks, files, out: the   *)
(* value returned, err, info: what the exception reports].                 *)

_SEEK_SET == 0
_SEEK_CUR == 1
_SEEK_END == 2

\* file_document is a sequence of zero documents (None) or one
GridOut_init(file_id, file_document) ==
    [file_id |-> file_id,
     file |-> file_document,
     buffer |-> EMPTY,
     position |-> 0]

RaiseInfo(s, e, i) == [s EXCEPT !.err = e, !.info = i]

\* _ensure_file that asks the files collection on every call
GridOut_ensure_file_always(s) ==
    Bind(find_one(s.files, <<<<"_id", "eq", s.g.file_id>>>>), LAMBDA doc :
        IF doc = <<>> THEN RaiseInfo(s, "NoFile", <<s.g.file_id>>)
        ELSE [s EXCEPT !.g.file = doc])

GridOut_ensure_file(s) ==
    IF s.g.file # <<>> THEN s
    ELSE Bind(find_one(s.files, <<<<"_id", "eq", s.g.file_id>>>>), LAMBDA doc :
            IF doc = <<>> THEN RaiseInfo(s, "NoFile", <<s.g.file_id>>)
            ELSE [s EXCEPT !.g.file = doc])

\* _grid_out_property: self._file.get(field_name, 0 or None) of a resolved file
GridOut_get(g, field_name) ==
    IF field_name \in DOMAIN g.file[1] THEN g.file[1][field_name]
    ELSE IF field_name = "length" THEN 0 ELSE -1

\* reading a property of the reader (length, chunk_size, _id, md5, ...)
GridOut_property(s, field_name) ==
    Bind(GridOut_ensure_file(s), LAMBDA s0 :
        IF s0.err # "ok" THEN s0
        ELSE [s0 EXCEPT !.out = <<GridOut_get(s0.g, field_name)>>])

\* readchunk() that asks for the first chunk at or after the expected index
GridOut_readchunk_gte(s) ==
    Bind(GridOut_ensure_file(s), LAMBDA s0 :
    IF s0.err # "ok" THEN s0
    ELSE
    LET received == Len(s0.g.buffer)
        chunk_size == GridOut_get(s0.g, "chunkSize")
    IN  IF received > 0
        THEN [s0 EXCEPT !.out = s0.g.buffer,
                        !.g.position = @ + received,
                        !.g.buffer = EMPTY]
        ELSE IF s0.g.position < GridOut_get(s0.g, "length")
        THEN LET chunk_number == (received + s0.g.position) \div chunk_size IN
             Bind(find_one(s0.chunks,
                      <<<<"files_id", "eq", GridOut_get(s0.g, "_id")>>,
                        <<"n", "gte", chunk_number>>>>),
                  LAMBDA chunk :
                 IF chunk = <<>>
                 THEN RaiseInfo(s0, "CorruptGridFile", <<"no chunk", chunk_number>>)
                 ELSE Bind(Drop(chunk[1].data, s0.g.position % chunk_size),
                           LAMBDA chunk_data :
                      IF chunk_data = EMPTY
                      THEN RaiseInfo(s0, "CorruptGridFile", <<"truncated chunk">>)
                      ELSE [s0 EXCEPT !.out = chunk_data,
                                      !.g.position = @ + Len(chunk_data),
                                      !.g.buffer = EMPTY]))
        ELSE [s0 EXCEPT !.out = EMPTY, !.g.buffer = EMPTY])

\* readchunk() that moves the cursor to the end of the chunk it asked for
GridOut_readchunk_skip(s) ==
    Bind(GridOut_ensure_file(s), LAMBDA s0 :
    IF s0.err # "ok" THEN s0
    ELSE
    LET received == Len(s0.g.buffer)
        chunk_size == GridOut_get(s0.g, "chunkSize")
    IN  IF received > 0
        THEN [s0 EXCEPT !.out = s0.g.buffer,
                        !.g.position = @ + received,
                        !.g.buffer = EMPTY]
        ELSE IF s0.g.position < GridOut_get(s0.g, "length")
        THEN LET chunk_number == (received + s0.g.position) \div chunk_size IN
             Bind(find_one(s0.chunks,
                      <<<<"files_id", "eq", GridOut_get(s0.g, "_id")>>,
                        <<"n", "eq", chunk_number>>>>),
                  LAMBDA chunk :
                 IF chunk = <<>>
                 THEN RaiseInfo(s0, "CorruptGridFile", <<"no chunk", chunk_number>>)
                 ELSE Bind(Drop(chunk[1].data, s0.g.position % chunk_size),
                           LAMBDA chunk_data :
                      IF chunk_data = EMPTY
                      THEN RaiseInfo(s0, "CorruptGridFile", <<"truncated chunk">>)
                      ELSE [s0 EXCEPT !.out = chunk_data,
                                      !.g.position =
                                          Min((chunk_number + 1) * chunk_size,
                                              GridOut_get(s0.g, "length")),
                                      !.g.buffer = EMPTY]))
        ELSE [s0 EXCEPT !.out = EMPTY, !.g.buffer = EMPTY])

GridOut_readchunk(s) ==
    Bind(GridOut_ensure_file(s), LAMBDA s0 :
    IF s0.err # "ok" THEN s0
    ELSE
    LET received == Len(s0.g.buffer)
        chunk_size == GridOut_get(s0.g, "chunkSize")
    IN  IF received > 0
        THEN [s0 EXCEPT !.out = s0.g.buffer,
                        !.g.position = @ + received,
                        !.g.buffer = EMPTY]
        ELSE IF s0.g.position < GridOut_get(s0.g, "length")
        THEN LET chunk_number == (received + s0.g.position) \div chunk_size IN
             Bind(find_one(s0.chunks,
                      <<<<"files_id", "eq", GridOut_get(s0.g, "_id")>>,
                        <<"n", "eq", chunk_number>>>>),
                  LAMBDA chunk :
                 IF chunk = <<>>
                 THEN RaiseInfo(s0, "CorruptGridFile", <<"no chunk", chunk_number>>)
                 ELSE Bind(Drop(chunk[1].data, s0.g.position % chunk_size),
                           LAMBDA chunk_data :
                      IF chunk_data = EMPTY
                      THEN RaiseInfo(s0, "CorruptGridFile", <<"truncated chunk">>)
                      ELSE [s0 EXCEPT !.out = chunk_data,
                                      !.g.position = @ + Len(chunk_data),
                                      !.g.buffer = EMPTY]))
        ELSE [s0 EXCEPT !.out = EMPTY, !.g.buffer = EMPTY])

\* the loop of read(): t = [s, received, data]; a readchunk() that returns no
\* bytes without raising would keep the loop turning for ever ("Hang")
RECURSIVE ReadLoop(_, _)
ReadLoop(t, size) ==
    IF t.received < size
    THEN Bind(GridOut_readchunk(t.s), LAMBDA c :
            IF c.err # "ok" THEN [t EXCEPT !.s = c]
            ELSE IF c.out = EMPTY THEN [t EXCEPT !.s = Raise(c, "Hang")]
            ELSE Bind([s |-> c,
                       received |-> t.received + Len(c.out),
                       data |-> t.data \o c.out],
                      LAMBDA t1 : ReadLoop(t1, size)))
    ELSE t

\* "Detect extra chunks": the one document find_one returns decides
ExtraChunk(s) ==
    LET max_chunk_n == CeilDiv(GridOut_get(s.g, "length"), GridOut_get(s.g, "chunkSize")) IN
    Bind(find_one(s.chunks,
             <<<<"files_id", "eq", GridOut_get(s.g, "_id")>>,
               <<"n", "gte", max_chunk_n>>>>),
         LAMBDA chunk :
        IF chunk # <<>> /\ Len(chunk[1].data) # 0
        THEN RaiseInfo(s, "CorruptGridFile", <<"extra chunk", max_chunk_n, chunk[1].n>>)
        ELSE s)

\* read() that leaves the cursor at the end of the last chunk it fetched
GridOut_read_norewind(s, size) ==
    Bind(GridOut_ensure_file(s), LAMBDA s0 :
    IF s0.err # "ok" THEN s0
    ELSE IF size = 0 THEN [s0 EXCEPT !.out = EMPTY]
    ELSE
    LET remainder == GridOut_get(s0.g, "length") - s0.g.position
        sz == IF size < 0 \/ size > remainder THEN remainder ELSE size
    IN  Bind(ReadLoop([s |-> s0, received |-> 0, data |-> EMPTY], sz), LAMBDA t :
        IF t.s.err # "ok" THEN t.s
        ELSE Bind(ExtraChunk(t.s), LAMBDA s1 :
            IF s1.err # "ok" THEN s1
            ELSE Bind(s1, LAMBDA s2 :
                \* data.seek(size): negative seek value
                IF sz < 0 THEN Raise(s2, "ValueError")
                ELSE [s2 EXCEPT !.g.buffer = Drop(t.data, sz),
                                !.out = Take(t.data, sz)]))))

GridOut_read(s, size) ==
    Bind(GridOut_ensure_file(s), LAMBDA s0 :
    IF s0.err # "ok" THEN s0
    ELSE IF size = 0 THEN [s0 EXCEPT !.out = EMPTY]
    ELSE
    LET remainder == GridOut_get(s0.g, "length") - s0.g.position
        sz == IF size < 0 \/ size > remainder THEN remainder ELSE size
    IN  Bind(ReadLoop([s |-> s0, received |-> 0, data |-> EMPTY], sz), LAMBDA t :
        IF t.s.err # "ok" THEN t.s
        ELSE Bind(ExtraChunk(t.s), LAMBDA s1 :
            IF s1.err # "ok" THEN s1
            ELSE Bind([s1 EXCEPT !.g.position = @ - (t.received - sz)], LAMBDA s2 :
                \* data.seek(size): negative seek value
                IF sz < 0 THEN Raise(s2, "ValueError")
                ELSE [s2 EXCEPT !.g.buffer = Drop(t.data, sz),
                                !.out = Take(t.data, sz)]))))

\* bytes.find(NEWLN, 0, end) for end >= 0: the index of the first newline among
\* the first end bytes, or -1
Find(data, end) ==
    LET hits == {i \in 1..Min(end, Len(data)) : data[i] = NEWLN} IN
    IF hits = {} THEN -1
    ELSE (CHOOSE i \in hits : \A j \in hits : i <= j) - 1

\* the loop of readline(): t = [s, received, data, size]
RECURSIVE ReadlineLoop(_)
ReadlineLoop(t) ==
    IF t.received < t.size
    THEN Bind(GridOut_readchunk(t.s), LAMBDA c :
            IF c.err # "ok" THEN [t EXCEPT !.s = c]
            ELSE IF c.out = EMPTY THEN [t EXCEPT !.s = Raise(c, "Hang")]
            ELSE Bind(Find(c.out, t.size), LAMBDA pos :
                 Bind([s |-> c,
                       received |-> t.received + Len(c.out),
                       data |-> t.data \o c.out,
                       size |-> IF pos # -1 THEN t.received + pos + 1 ELSE t.size],
                      LAMBDA t1 : IF pos # -1 THEN t1 ELSE ReadlineLoop(t1))))
    ELSE t

GridOut_readline(s, size) ==
    IF size = 0 THEN [s EXCEPT !.out = EMPTY]
    ELSE
    Bind(GridOut_ensure_file(s), LAMBDA s0 :
    IF s0.err # "ok" THEN s0
    ELSE
    LET remainder == GridOut_get(s0.g, "length") - s0.g.position
        sz == IF size < 0 \/ size > remainder THEN remainder ELSE size
    IN  Bind(ReadlineLoop([s |-> s0, received |-> 0, data |-> EMPTY, size |-> sz]),
             LAMBDA t :
        IF t.s.err # "ok" THEN t.s
        ELSE Bind([t.s EXCEPT !.g.position = @ - (t.received - t.size)], LAMBDA s2 :
            \* data.seek(size): negative seek value
            IF t.size < 0 THEN Raise(s2, "ValueError")
            ELSE [s2 EXCEPT !.g.buffer = Drop(t.data, t.size),
                            !.out = Take(t.data, t.size)])))

GridOut_tell(s) == [s EXCEPT !.out = s.g.position]

\* seek() that moves the cursor and drops the buffer before it checks the position
GridOut_seek_late(s, pos, whence) ==
    Bind(IF whence = _SEEK_END THEN GridOut_ensure_file(s) ELSE s, LAMBDA s0 :
    IF s0.err # "ok" THEN s0
    ELSE IF whence \notin {_SEEK_SET, _SEEK_CUR, _SEEK_END}
    THEN RaiseInfo(s0, "IOError", <<22, "whence">>)
    ELSE
    LET new_pos == IF whence = _SEEK_SET THEN pos
                   ELSE IF whence = _SEEK_CUR THEN s0.g.position + pos
                   ELSE GridOut_get(s0.g, "length") + pos
    IN  Bind([s0 EXCEPT !.g.position = new_pos, !.g.buffer = EMPTY], LAMBDA s1 :
            IF new_pos < 0 THEN RaiseInfo(s1, "IOError", <<22, "pos">>) ELSE s1))

\* seek() that keeps what the look-ahead buffer holds from the new cursor on
GridOut_seek_within(s, pos, whence) ==
    Bind(IF whence = _SEEK_END THEN GridOut_ensure_file(s) ELSE s, LAMBDA s0 :
    IF s0.err # "ok" THEN s0
    ELSE IF whence \notin {_SEEK_SET, _SEEK_CUR, _SEEK_END}
    THEN RaiseInfo(s0, "IOError", <<22, "whence">>)
    ELSE
    LET new_pos == IF whence = _SEEK_SET THEN pos
                   ELSE IF whence = _SEEK_CUR THEN s0.g.position + pos
                   ELSE GridOut_get(s0.g, "length") + pos
    IN  IF new_pos < 0 THEN RaiseInfo(s0, "IOError", <<22, "pos">>)
        ELSE [s0 EXCEPT !.g.position = new_pos,
                        !.g.buffer = IF new_pos >= s0.g.position
                                     THEN Drop(@, new_pos - s0.g.position)
                                     ELSE EMPTY])

\* seek() that moves the cursor and keeps the look-ahead buffer
GridOut_seek_keep(s, pos, whence) ==
    Bind(IF whence = _SEEK_END THEN GridOut_ensure_file(s) ELSE s, LAMBDA s0 :
    IF s0.err # "ok" THEN s0
    ELSE IF whence \notin {_SEEK_SET, _SEEK_CUR, _SEEK_END}
    THEN RaiseInfo(s0, "IOError", <<22, "whence">>)
    ELSE
    LET new_pos == IF whence = _SEEK_SET THEN pos
                   ELSE IF whence = _SEEK_CUR THEN s0.g.position + pos
                   ELSE GridOut_get(s0.g, "length") + pos
    IN  IF new_pos < 0 THEN RaiseInfo(s0, "IOError", <<22, "pos">>)
        ELSE [s0 EXCEPT !.g.position = new_pos])

GridOut_seek(s, pos, whence) ==
    Bind(IF whence = _SEEK_END THEN GridOut_ensure_file(s) ELSE s, LAMBDA s0 :
    IF s0.err # "ok" THEN s0
    ELSE IF whence \notin {_SEEK_SET, _SEEK_CUR, _SEEK_END}
    THEN RaiseInfo(s0, "IOError", <<22, "whence">>)
    ELSE
    LET new_pos == IF whence = _SEEK_SET THEN pos
                   ELSE IF whence = _SEEK_CUR THEN s0.g.position + pos
                   ELSE GridOut_get(s0.g, "length") + pos
    IN  IF new_pos < 0 THEN RaiseInfo(s0, "IOError", <<22, "pos">>)
        ELSE [s0 EXCEPT !.g.position = new_pos, !.g.buffer = EMPTY])

----------------------------------------------------------------------------
(* GridOutIterator.  A step works on i = the iterator and the chunks       *)
(* collection and gives [i, out, err, info].                               *)

\* GridOutIterator(grid_out, chunks) on a reader that has its file document
GridOutIterator_init(g) ==
    [id |-> GridOut_get(g, "_id"),
     current_chunk |-> 0,
     max_chunk |-> CeilDiv(GridOut_get(g, "length"), GridOut_get(g, "chunkSize"))]

\* next() that goes on while the index is not beyond the chunk count
GridOutIterator_next_beyond(i, coll) ==
    IF i.current_chunk > i.max_chunk
    THEN [i |-> i, out |-> EMPTY, err |-> "StopIteration", info |-> <<>>]
    ELSE Bind(find_one(coll, <<<<"files_id", "eq", i.id>>, <<"n", "eq", i.current_chunk>>>>),
              LAMBDA chunk :
            IF chunk = <<>>
            THEN [i |-> i, out |-> EMPTY, err |-> "CorruptGridFile",
                  info |-> <<"no chunk", i.current_chunk>>]
            ELSE [i |-> [i EXCEPT !.current_chunk = @ + 1],
                  out |-> chunk[1].data, err |-> "ok", info |-> <<>>])

GridOutIterator_next(i, coll) ==
    IF i.current_chunk >= i.max_chunk
    THEN [i |-> i, out |-> EMPTY, err |-> "StopIteration", info |-> <<>>]
    ELSE Bind(find_one(coll, <<<<"files_id", "eq", i.id>>, <<"n", "eq", i.current_chunk>>>>),
              LAMBDA chunk :
            IF chunk = <<>>
            THEN [i |-> i, out |-> EMPTY, err |-> "CorruptGridFile",
                  info |-> <<"no chunk", i.current_chunk>>]
            ELSE [i |-> [i EXCEPT !.current_chunk = @ + 1],
                  out |-> chunk[1].data, err |-> "ok", info |-> <<>>])

----------------------------------------------------------------------------
(* The state the calls of the model start from and the history they keep.  *)

WCtx(w) == [w |-> gin[w], chunks |-> chunks, files |-> files, err |-> "ok"]
RCtx(g) == [g |-> g, chunks |-> chunks, files |-> files,
            out |-> EMPTY, err |-> "ok", info |-> <<>>]

\* a whole upload: GridIn(_id=id, chunk_size=c), write(data), close()
Upload(id, c, data, ch, fl) ==
    GridIn_close(GridIn_write([w |-> GridIn_init(id, c), chunks |-> ch,
                               files |-> fl, err |-> "ok"], data))

\* another file of the bucket, uploaded before the model starts
Bystander == Upload(OtherId, 2, <<98, 99, 100>>, <<>>, <<>>)

NoCall == [op |-> "none", who |-> 0, arg |-> <<>>, out |-> <<>>, err |-> "ok",
           info |-> <<>>, tell |-> 0, buffer |-> <<>>, prev |-> <<"none", "ok">>]

\* no iterator yet: open is FALSE; yielded and stops are history (the payloads
\* returned so far, the StopIterations raised so far)
NoIter == [open |-> FALSE, id |-> 0, current_chunk |-> 0, max_chunk |-> 0,
           yielded |-> <<>>, stops |-> 0]

NoLog == [sent |-> EMPTY, writes |-> 0, closed_ok |-> FALSE, failed_closes |-> 0,
          aborted |-> FALSE]

----------------------------------------------------------------------------
(* The calls on a writer.                                                  *)

WriteUpTo(w, max_len, max_writes) ==
    /\ log[w].writes < max_writes
    /\ \E data \in BytesUpTo(max_len - Len(log[w].sent)) :
          \E s \in {GridIn_write(WCtx(w), data)} :
          /\ gin' = [gin EXCEPT ![w] = s.w]
          /\ chunks' = s.chunks
          /\ files' = s.files
          /\ log' = [log EXCEPT ![w].writes = @ + 1,
                                ![w].sent = IF s.err = "ok" THEN @ \o data ELSE @]
          /\ res' = [NoCall EXCEPT !.op = "write", !.who = w, !.arg = data,
                                   !.err = s.err, !.buffer = gin[w].buffer]
    /\ UNCHANGED <<gout, orig, giter>>

Write(w) == WriteUpTo(w, MaxLen, MaxWrites)

Close(w) ==
    /\ log[w].failed_closes < MaxFailedCloses
    /\ \E s \in {GridIn_close(WCtx(w))} :
          /\ gin' = [gin EXCEPT ![w] = s.w]
          /\ chunks' = s.chunks
          /\ files' = s.files
          /\ log' = [log EXCEPT ![w].closed_ok = @ \/ (s.err = "ok" /\ ~gin[w].closed),
                                ![w].failed_closes = IF s.err = "ok" THEN @ ELSE @ + 1]
          /\ res' = [NoCall EXCEPT !.op = "close", !.who = w, !.err = s.err,
                                   !.buffer = gin[w].buffer]
    /\ UNCHANGED <<gout, orig, giter>>

Abort(w) ==
    \E s \in {GridIn_abort(WCtx(w))} :
    /\ gin' = [gin EXCEPT ![w] = s.w]
    /\ chunks' = s.chunks
    /\ files' = s.files
    /\ log' = [log EXCEPT ![w].aborted = TRUE]
    /\ res' = [NoCall EXCEPT !.op = "abort", !.who = w, !.err = s.err,
                             !.buffer = gin[w].buffer]
    /\ UNCHANGED <<gout, orig, giter>>

\* GridOut(fs, file_id).read(): a fresh reader reads the whole file
ReadBack(r) ==
    \E s \in {GridOut_read(RCtx(GridOut_init(FileId, <<>>)), -1)} :
    /\ gout' = [gout EXCEPT ![r] = s.g]
    /\ res' = [NoCall EXCEPT !.op = "readback", !.who = r, !.arg = <<-1>>,
                             !.out = s.out, !.err = s.err, !.info = s.info]
    /\ UNCHANGED <<chunks, files, gin, log, orig, giter>>

----------------------------------------------------------------------------
(* Spec: one writer session on a bucket that holds another file.           *)

Init ==
    /\ chunks = Bystander.chunks
    /\ files = Bystander.files
    /\ \E c \in 1..MaxChunk : gin = [w \in Writers |-> GridIn_init(FileId, c)]
    /\ gout = [r \in Readers |-> GridOut_init(FileId, <<>>)]
    /\ log = [w \in Writers |-> NoLog]
    /\ orig = <<>>
    /\ res = NoCall
    /\ giter = [r \in Readers |-> NoIter]

Next ==
    \/ Write(1)
    \/ Close(1)
    \/ Abort(1)
    \/ ReadBack(1)

Spec == Init /\ [][Next]_vars

----------------------------------------------------------------------------
(* SpecStream: one writer session fed from file-like data that may raise,  *)
(* and uploads through put().                                              *)

NoFail == -1

\* the calls of read() a data source answers before it raises
SourceFails == {NoFail} \cup (0..MaxSourceReads)

WriteFrom(w) ==
    /\ log[w].writes < MaxStreamWrites
    /\ \E src \in BytesUpTo(MaxStreamLen - Len(log[w].sent)), fail \in SourceFails :
          \E s \in {GridIn_write_from(WCtx(w), src, fail)} :
          /\ gin' = [gin EXCEPT ![w] = s.w]
          /\ chunks' = s.chunks
          /\ files' = s.files
          /\ log' = [log EXCEPT ![w].writes = @ + 1,
                                ![w].sent = IF s.err = "ok" THEN @ \o src ELSE @]
          /\ res' = [NoCall EXCEPT !.op = "write_from", !.who = w, !.arg = src,
                                   !.err = s.err, !.buffer = gin[w].buffer]
    /\ UNCHANGED <<gout, orig, giter>>

Put(w) ==
    /\ log[w].writes < MaxStreamWrites
    /\ \E src \in BytesUpTo(MaxPut), fail \in SourceFails, c \in 1..MaxChunk :
          \E s \in {MockGridFS_put(FileId, c, src, fail, chunks, files)} :
          /\ gin' = [gin EXCEPT ![w] = s.w]
          /\ chunks' = s.chunks
          /\ files' = s.files
          /\ log' = [log EXCEPT ![w] = [NoLog EXCEPT !.writes = log[w].writes + 1,
                                                    !.sent = IF s.err = "ok" THEN src ELSE EMPTY,
                                                    !.closed_ok = s.err = "ok"]]
          /\ res' = [NoCall EXCEPT !.op = "put", !.who = w, !.arg = src,
                                   !.err = s.err]
    /\ UNCHANGED <<gout, orig, giter>>

NextStream ==
    \/ WriteFrom(1)
    \/ Put(1)
    \/ Close(1)
    \/ Abort(1)

SpecStream == Init /\ [][NextStream]_vars

----------------------------------------------------------------------------
(* SpecAttr: one writer session in which attributes of the writer are set. *)

\* the names given to setattr: properties of the class and keys of the document
AttrNames == {"_id", "length", "chunk_size", "filename", "content_type",
              "chunkSize", "metadata"}

\* the value assigned: one no field of the model's documents holds
NewValue == MaxLen + 2

SetAttr(w) ==
    /\ \E name \in AttrNames :
          \E s \in {GridIn_setattr(WCtx(w), name, NewValue)} :
              /\ gin' = [gin EXCEPT ![w] = s.w]
              /\ chunks' = s.chunks
              /\ files' = s.files
              /\ res' = [NoCall EXCEPT !.op = "setattr", !.who = w, !.arg = <<name>>,
                                       !.err = s.err]
    /\ UNCHANGED <<gout, log, orig, giter>>

AttrWrite(w) == WriteUpTo(w, MaxAttrLen, MaxAttrLen)

NextAttr ==
    \/ AttrWrite(1)
    \/ Close(1)
    \/ SetAttr(1)

SpecAttr == Init /\ [][NextAttr]_vars

----------------------------------------------------------------------------
(* SpecRace: two writers given the same _id, their calls interleaved.      *)

RaceWrite(w) == WriteUpTo(w, MaxRaceLen, MaxRaceLen)

InitRace ==
    /\ chunks = <<>>
    /\ files = <<>>
    /\ gin \in [Writers -> {GridIn_init(FileId, c) : c \in 1..MaxRaceChunk}]
    /\ gout = [r \in Readers |-> GridOut_init(FileId, <<>>)]
    /\ log = [w \in Writers |-> NoLog]
    /\ orig = <<>>
    /\ res = NoCall
    /\ giter = [r \in Readers |-> NoIter]

NextRace ==
    \E w \in Writers :
        \/ RaceWrite(w)
        \/ Close(w)
        \/ Abort(w)

SpecRace == InitRace /\ [][NextRace]_vars

----------------------------------------------------------------------------
(* The calls on a reader, and what reaches the store from outside.         *)

Called(op, r, arg, s) ==
    [op |-> op, who |-> r, arg |-> arg, out |-> s.out, err |-> s.err, info |-> s.info,
     tell |-> gout[r].position, buffer |-> gout[r].buffer,
     prev |-> <<res.op, res.err>>]

\* read() on readers that keep their look-ahead buffer in one place for all
Read_shared(r) ==
    /\ \E size \in -1..MaxRead :
          \E s \in {GridOut_read(RCtx(gout[r]), size)} :
              /\ gout' = [q \in Readers |->
                             IF q = r THEN s.g ELSE [gout[q] EXCEPT !.buffer = s.g.buffer]]
              /\ res' = Called("read", r, <<size>>, s)
    /\ UNCHANGED <<chunks, files, gin, log, orig, giter>>

Read(r) ==
    /\ \E size \in -1..MaxRead :
          \E s \in {GridOut_read(RCtx(gout[r]), size)} :
              /\ gout' = [gout EXCEPT ![r] = s.g]
              /\ res' = Called("read", r, <<size>>, s)
    /\ UNCHANGED <<chunks, files, gin, log, orig, giter>>

Readline(r) ==
    /\ \E size \in -1..MaxRead :
          \E s \in {GridOut_readline(RCtx(gout[r]), size)} :
              /\ gout' = [gout EXCEPT ![r] = s.g]
              /\ res' = Called("readline", r, <<size>>, s)
    /\ UNCHANGED <<chunks, files, gin, log, orig, giter>>

\* seek(pos): whence defaults to _SEEK_SET
Seek(r) ==
    /\ \E pos \in 0..MaxPos :
          \E s \in {GridOut_seek(RCtx(gout[r]), pos, _SEEK_SET)} :
              /\ gout' = [gout EXCEPT ![r] = s.g]
              /\ res' = Called("seek", r, <<pos, _SEEK_SET>>, s)
    /\ UNCHANGED <<chunks, files, gin, log, orig, giter>>

\* seek(pos, whence) from the cursor, from the end, or with a whence that is none
SeekFrom(r) ==
    /\ \E pos \in -MaxPos..MaxPos, whence \in 1..3 :
          \E s \in {GridOut_seek(RCtx(gout[r]), pos, whence)} :
              /\ s.g.position <= MaxPos
              /\ gout' = [gout EXCEPT ![r] = s.g]
              /\ res' = Called("seek", r, <<pos, whence>>, s)
    /\ UNCHANGED <<chunks, files, gin, log, orig, giter>>

\* GridOut(fs, file_id): the reader is replaced by a new one
Reopen(r) ==
    /\ gout[r] # GridOut_init(FileId, <<>>)
    /\ gout' = [gout EXCEPT ![r] = GridOut_init(FileId, <<>>)]
    /\ res' = [NoCall EXCEPT !.op = "open", !.who = r]
    /\ UNCHANGED <<chunks, files, gin, log, orig, giter>>

NoReaderOpen == \A r \in Readers : gout[r] = GridOut_init(FileId, <<>>)

\* a chunk document of the file is deleted behind the file's back
DeleteChunk ==
    /\ NoReaderOpen
    /\ \E i \in 1..Len(chunks) :
          /\ chunks[i].files_id = FileId
          /\ chunks' = SubSeq(chunks, 1, i - 1) \o SubSeq(chunks, i + 1, Len(chunks))
    /\ res' = [NoCall EXCEPT !.op = "delete"]
    /\ UNCHANGED <<files, gin, gout, log, orig, giter>>

DeclaredChunks == CeilDiv(Len(log[1].sent), gin[1].file["chunkSize"])

\* a chunk document is inserted at or beyond the file's declared chunk count
InsertExtra ==
    /\ NoReaderOpen
    /\ Len(ChunksOf(chunks, FileId)) - Len(ChunksOf(orig, FileId)) < MaxExtra
    /\ \E n \in DeclaredChunks..(DeclaredChunks + 1), data \in BytesUpTo(1) :
          LET doc == [files_id |-> FileId, n |-> n, data |-> data] IN
          /\ ~ChunkDuplicate(chunks, doc)
          /\ chunks' = Append(chunks, doc)
    /\ res' = [NoCall EXCEPT !.op = "insert"]
    /\ UNCHANGED <<files, gin, gout, log, orig, giter>>

----------------------------------------------------------------------------
(* SpecReader: a reader on a finalized file of the bucket.                 *)
(* SpecDeleted: the same, with chunk documents of the file deleted.        *)
(* SpecExtra: the same, with chunk documents added beyond the file's end.  *)

InitReader ==
    \E data \in BytesUpTo(MaxFile), c \in 1..MaxChunk :
        \E s \in {Upload(FileId, c, data, Bystander.chunks, Bystander.files)} :
            /\ chunks = s.chunks
            /\ files = s.files
            /\ gin = [w \in Writers |-> s.w]
            /\ gout = [r \in Readers |-> GridOut_init(FileId, <<>>)]
            /\ log = [w \in Writers |->
                         [NoLog EXCEPT !.sent = data, !.writes = 1, !.closed_ok = TRUE]]
            /\ orig = s.chunks
            /\ res = NoCall
            /\ giter = [r \in Readers |-> NoIter]

NextReader ==
    \/ Read(1)
    \/ Readline(1)
    \/ Seek(1)
    \/ SeekFrom(1)
    \/ Reopen(1)

SpecReader == InitReader /\ [][NextReader]_vars

NextDeleted ==
    \/ Read(1)
    \/ Seek(1)
    \/ Reopen(1)
    \/ DeleteChunk

SpecDeleted == InitReader /\ [][NextDeleted]_vars

NextExtra ==
    \/ Read(1)
    \/ Seek(1)
    \/ Reopen(1)
    \/ InsertExtra

SpecExtra == InitReader /\ [][NextExtra]_vars

----------------------------------------------------------------------------
(* SpecNoFile: a reader on an id whose file document is not there: never   *)
(* uploaded, or deleted from the files collection behind the reader.       *)

Tell(r) ==
    /\ \E s \in {GridOut_tell(RCtx(gout[r]))} :
          /\ gout' = [gout EXCEPT ![r] = s.g]
          /\ res' = Called("tell", r, <<>>, [s EXCEPT !.out = <<s.out>>])
    /\ UNCHANGED <<chunks, files, gin, log, orig, giter>>

Get(r) ==
    /\ \E field_name \in {"_id", "length", "chunkSize", "md5", "filename"} :
          \E s \in {GridOut_property(RCtx(gout[r]), field_name)} :
              /\ gout' = [gout EXCEPT ![r] = s.g]
              /\ res' = Called("get", r, <<field_name>>, s)
    /\ UNCHANGED <<chunks, files, gin, log, orig, giter>>

\* the file document is deleted from the files collection
DeleteFile ==
    /\ FilesOf(files, FileId) # <<>>
    /\ files' = delete_many(files, <<<<"_id", "eq", FileId>>>>)
    /\ res' = [NoCall EXCEPT !.op = "delete"]
    /\ UNCHANGED <<chunks, gin, gout, log, orig, giter>>

InitNoFile ==
    \/ InitReader
    \/ /\ chunks = Bystander.chunks
       /\ files = Bystander.files
       /\ gin = [w \in Writers |-> GridIn_init(FileId, 1)]
       /\ gout = [r \in Readers |-> GridOut_init(FileId, <<>>)]
       /\ log = [w \in Writers |-> NoLog]
       /\ orig = Bystander.chunks
       /\ res = NoCall
       /\ giter = [r \in Readers |-> NoIter]

NextNoFile ==
    \/ Read(1)
    \/ SeekFrom(1)
    \/ Tell(1)
    \/ Get(1)
    \/ Reopen(1)
    \/ DeleteFile

SpecNoFile == InitNoFile /\ [][NextNoFile]_vars

----------------------------------------------------------------------------
(* SpecIter: chunk iterators over a finalized file, chunk documents of     *)
(* which may be deleted.                                                   *)

\* iter(grid_out): GridOut.__iter__ reads _id, length and chunk_size of the reader
Iter(r) ==
    \E s \in {GridOut_ensure_file(RCtx(gout[r]))} :
        /\ gout' = [gout EXCEPT ![r] = s.g]
        /\ giter' = [giter EXCEPT ![r] =
                        IF s.err = "ok"
                        THEN [open |-> TRUE, yielded |-> <<>>, stops |-> 0]
                             @@ GridOutIterator_init(s.g)
                        ELSE @]
        /\ res' = [NoCall EXCEPT !.op = "iter", !.who = r, !.err = s.err, !.info = s.info]
        /\ UNCHANGED <<chunks, files, gin, log, orig>>

\* next(iterator)
IterNext(r) ==
    /\ giter[r].open
    /\ giter[r].stops < MaxStops
    /\ \E s \in {GridOutIterator_next([id |-> giter[r].id,
                                       current_chunk |-> giter[r].current_chunk,
                                       max_chunk |-> giter[r].max_chunk], chunks)} :
          /\ giter' = [giter EXCEPT
                          ![r].current_chunk = s.i.current_chunk,
                          ![r].yielded = IF s.err = "ok" THEN Append(@, s.out) ELSE @,
                          ![r].stops = IF s.err = "StopIteration" THEN @ + 1 ELSE @]
          /\ res' = [NoCall EXCEPT !.op = "next", !.who = r, !.out = s.out,
                                   !.err = s.err, !.info = s.info,
                                   !.tell = giter[r].current_chunk]
    /\ UNCHANGED <<chunks, files, gin, gout, log, orig>>

NextIter ==
    \/ Iter(1)
    \/ IterNext(1)
    \/ Reopen(1)
    \/ DeleteChunk

SpecIter == InitReader /\ [][NextIter]_vars

----------------------------------------------------------------------------
(* SpecShared: the readers of one finalized file, and an iterator made     *)
(* from each, their calls interleaved.                                     *)

NextShared ==
    \/ \E r \in Readers : Read(r)
    \/ Readline(1)
    \/ Seek(2)
    \/ Iter(2)
    \/ IterNext(2)

InitShared ==
    \E data \in BytesUpTo(MaxSharedFile), c \in 1..MaxSharedChunk :
        \E s \in {Upload(FileId, c, data, Bystander.chunks, Bystander.files)} :
            /\ chunks = s.chunks
            /\ files = s.files
            /\ gin = [w \in Writers |-> s.w]
            /\ gout = [r \in Readers |-> GridOut_init(FileId, <<>>)]
            /\ log = [w \in Writers |->
                         [NoLog EXCEPT !.sent = data, !.writes = 1, !.closed_ok = TRUE]]
            /\ orig = s.chunks
            /\ res = NoCall
            /\ giter = [r \in Readers |-> NoIter]

SpecShared == InitShared /\ [][NextShared]_vars

----------------------------------------------------------------------------
(* SpecTruncated: a reader on a finalized file, chunk documents of which   *)
(* have lost bytes at their end.                                           *)

\* the data of a chunk document of the file is cut to a proper prefix
TruncateChunk ==
    /\ NoReaderOpen
    /\ \E i \in 1..Len(chunks) :
          /\ chunks[i].files_id = FileId
          /\ \E k \in 0..(Len(chunks[i].data) - 1) :
                chunks' = [chunks EXCEPT ![i].data = Take(@, k)]
    /\ res' = [NoCall EXCEPT !.op = "truncate"]
    /\ UNCHANGED <<files, gin, gout, log, orig, giter>>

NextTruncated ==
    \/ Read(1)
    \/ Seek(1)
    \/ Reopen(1)
    \/ TruncateChunk

SpecTruncated == InitReader /\ [][NextTruncated]_vars

----------------------------------------------------------------------------
(* SpecChanged: a reader on a finalized file, bytes of whose chunk         *)
(* documents are replaced in the store while the reader is in use.         *)

\* one byte of a chunk document of the file is replaced by another
ChangeChunk ==
    /\ \E i \in 1..Len(chunks) :
          /\ chunks[i].files_id = FileId
          /\ \E k \in 1..Len(chunks[i].data), b \in Byte :
                /\ b # chunks[i].data[k]
                /\ chunks' = [chunks EXCEPT ![i].data[k] = b]
    /\ res' = [NoCall EXCEPT !.op = "change"]
    /\ UNCHANGED <<files, gin, gout, log, orig, giter>>

NextChanged ==
    \/ Read(1)
    \/ Seek(1)
    \/ SeekFrom(1)
    \/ Reopen(1)
    \/ ChangeChunk

SpecChanged == InitReader /\ [][NextChanged]_vars

----------------------------------------------------------------------------
(* SpecBuffer: a reader on a finalized file that reads byte counts and     *)
(* lines and seeks.                                                        *)

NextBuffer ==
    \/ Read(1)
    \/ Readline(1)
    \/ Seek(1)
    \/ Reopen(1)

SpecBuffer == InitReader /\ [][NextBuffer]_vars

----------------------------------------------------------------------------
(* SpecLine: a reader that reads lines and byte counts from a finalized    *)
(* file of up to MaxLineFile bytes.                                        *)

InitLine ==
    \E data \in BytesUpTo(MaxLineFile), c \in 1..MaxChunk :
        \E s \in {Upload(FileId, c, data, Bystander.chunks, Bystander.files)} :
            /\ chunks = s.chunks
            /\ files = s.files
            /\ gin = [w \in Writers |-> s.w]
            /\ gout = [r \in Readers |-> GridOut_init(FileId, <<>>)]
            /\ log = [w \in Writers |->
                         [NoLog EXCEPT !.sent = data, !.writes = 1, !.closed_ok = TRUE]]
            /\ orig = s.chunks
            /\ res = NoCall
            /\ giter = [r \in Readers |-> NoIter]

NextLine ==
    \/ Read(1)
    \/ Readline(1)
    \/ Reopen(1)

SpecLine == InitLine /\ [][NextLine]_vars

----------------------------------------------------------------------------
(* The writer's contract (Spec).                                           *)

MyChunks(w) == ChunksOf(chunks, gin[w].file["_id"])
MyFiles(w) == FilesOf(files, gin[w].file["_id"])
ChunkSize(w) == gin[w].file["chunkSize"]
Finalized(w) == log[w].closed_ok /\ ~log[w].aborted

\* C1: once a writer that was given the bytes B, in any split of write() calls,
\* has closed, a fresh reader's read(-1) returns exactly B and raises nothing
\* (B empty included).
C1_RoundTrip ==
    \A w \in Writers :
        Finalized(w) =>
            \E s \in {GridOut_read(RCtx(GridOut_init(gin[w].file["_id"], <<>>)), -1)} :
                s.err = "ok" /\ s.out = log[w].sent

C1_Witness ==
    /\ res.op = "readback" /\ res.err = "ok" /\ res.out = log[1].sent
    /\ Finalized(1)
    /\ log[1].writes >= 2
    /\ Len(log[1].sent) > ChunkSize(1)
    /\ Len(log[1].sent) % ChunkSize(1) # 0

\* C2: after a successful close() the file document's length is len(B), the file
\* has ceil(len(B) / C) chunk documents (none for empty B), and the k-th chunk
\* inserted carries index k - 1: the indices are 0..count-1, handed out in
\* increasing order of flush without gap or repeat.
C2_LengthAndIndices ==
    \A w \in Writers :
        /\ \A i \in 1..Len(MyChunks(w)) : MyChunks(w)[i].n = i - 1
        /\ Finalized(w) =>
              /\ Len(MyFiles(w)) = 1
              /\ MyFiles(w)[1]["length"] = Len(log[w].sent)
              /\ Len(MyChunks(w)) = CeilDiv(Len(log[w].sent), ChunkSize(w))

C2_Witness ==
    /\ res.op = "close" /\ res.err = "ok"
    /\ Finalized(1)
    /\ log[1].writes >= 2
    /\ Len(MyChunks(1)) >= 3
    /\ MyFiles(1)[1]["length"] = Len(log[1].sent)

\* C3: every chunk document a writer persisted holds between 1 and C bytes, every
\* chunk but the one with the highest index holds exactly C bytes, and when a
\* write() call has returned the buffer holds fewer than C bytes.
C3_ChunkSizes ==
    \A w \in Writers :
        /\ \A i \in 1..Len(MyChunks(w)) :
              /\ 1 <= Len(MyChunks(w)[i].data)
              /\ Len(MyChunks(w)[i].data) <= ChunkSize(w)
              /\ (\E j \in 1..Len(MyChunks(w)) : MyChunks(w)[j].n > MyChunks(w)[i].n)
                    => Len(MyChunks(w)[i].data) = ChunkSize(w)
        /\ (res.op = "write" /\ res.who = w) => Len(gin[w].buffer) < ChunkSize(w)

C3_Witness ==
    /\ res.op = "write" /\ res.err = "ok"
    /\ res.buffer # EMPTY
    /\ Len(res.arg) > ChunkSize(1)
    /\ ChunkSize(1) >= 2
    /\ Len(MyChunks(1)) >= 2

\* C4: the bytes fed to the digest are the bytes flushed so far, each once and
\* in write order, so at close() the digest stored in the file document is the
\* digest of B hashed in one piece, however B was split over write() calls.
C4_Digest ==
    \A w \in Writers :
        /\ (~gin[w].closed /\ gin[w].file["md5"].kind = "md5")
              => gin[w].file["md5"].fed \o gin[w].buffer = log[w].sent
        /\ log[w].closed_ok => gin[w].file["md5"] = md5_of(log[w].sent)
        /\ Finalized(w) =>
              \A i \in 1..Len(MyFiles(w)) : MyFiles(w)[i]["md5"] = md5_of(log[w].sent)

C4_Witness ==
    /\ res.op = "close" /\ res.err = "ok" /\ res.buffer # EMPTY
    /\ Finalized(1)
    /\ log[1].writes >= 2
    /\ Len(log[1].sent) > ChunkSize(1)
    /\ MyFiles(1)[1]["md5"] = md5_of(log[1].sent)

\* C5: once abort() was called (before any flush, after some, or after close())
\* the store holds no chunk document and no file document of the writer's id, the
\* writer is closed, a later write() raises and a later close() persists nothing.
C5_Abort ==
    \A w \in Writers :
        log[w].aborted =>
            /\ MyChunks(w) = <<>>
            /\ MyFiles(w) = <<>>
            /\ gin[w].closed
            /\ (res.op = "write" /\ res.who = w) => res.err = "ValueError"
            /\ (res.op = "close" /\ res.who = w) => res.err = "ok"

C5_Witness ==
    /\ log[1].aborted
    /\ gin[1].chunk_number >= 2
    /\ gin[1].buffer # EMPTY
    /\ res.op = "close"
    /\ MyChunks(1) = <<>> /\ MyFiles(1) = <<>>

\* C6: when close() fails on a duplicate chunk or file document it raises
\* FileExists and leaves the writer closed: later write() calls raise and no
\* later close() fails again.
C6_FailedCloseCloses ==
    \A w \in Writers :
        /\ (res.op = "close" /\ res.who = w /\ res.err # "ok" /\ log[w].failed_closes = 1)
              => (res.err = "FileExists" /\ gin[w].closed)
        /\ log[w].failed_closes > 0 =>
              /\ gin[w].closed
              /\ (res.op = "write" /\ res.who = w) => res.err = "ValueError"
              /\ log[w].failed_closes = 1

----------------------------------------------------------------------------
(* The reader's contract (SpecReader, SpecDeleted, SpecExtra).             *)

FileLength == Len(log[1].sent)
FileChunkSize == gin[1].file["chunkSize"]
Slice(data, from, count) == SubSeq(data, from + 1, Min(from + count, Len(data)))

\* the size read(n) settles on at a cursor within the file
Clamped(n, tell) ==
    IF n < 0 \/ n > FileLength - tell THEN Max(FileLength - tell, 0) ELSE n

\* C7: on an intact file a read(k) of k >= 0 bytes that follows seek(p),
\* 0 <= p <= length, returns what a fresh reader's read(p + k) returns less its
\* first p bytes, whatever the reader did before the seek.
C7_SeekThenRead ==
    (/\ res.op = "read" /\ res.prev = <<"seek", "ok">>
     /\ res.arg[1] >= 0
     /\ res.tell <= FileLength)
    => \E b \in {GridOut_read(RCtx(GridOut_init(FileId, <<>>)), res.tell + res.arg[1])} :
          /\ res.err = "ok"
          /\ b.err = "ok"
          /\ res.out = Drop(b.out, res.tell)

\* The same for every integer k, the negative ones included (read's request
\* for all that remains): seek(p); read(k) against a fresh read(p + k).
C7_AnyK ==
    (/\ res.op = "read" /\ res.prev = <<"seek", "ok">>
     /\ res.tell <= FileLength)
    => \E b \in {GridOut_read(RCtx(GridOut_init(FileId, <<>>)), res.tell + res.arg[1])} :
          /\ res.err = "ok"
          /\ b.err = "ok"
          /\ res.out = Drop(b.out, res.tell)

C7_Witness ==
    /\ res.op = "read" /\ res.prev = <<"seek", "ok">> /\ res.err = "ok"
    /\ res.tell > 0 /\ res.tell % FileChunkSize # 0
    /\ Len(res.out) >= 2
    /\ res.out = Slice(log[1].sent, res.tell, res.arg[1])
    /\ gout[1].buffer = EMPTY

\* C8: on an intact file every read(n), at any cursor a seek can set (beyond the
\* end included), returns min(n, remaining) bytes (all that remain when n < 0, none
\* when nothing remains) without raising, and moves tell() by the bytes returned.
C8_ReadClamps ==
    res.op = "read" =>
        /\ res.err = "ok"
        /\ Len(res.out) = Clamped(res.arg[1], res.tell)
        /\ gout[res.who].position = res.tell + Len(res.out)

\* where seek(pos, whence) aims from the cursor at tell
SeekTarget(pos, whence, tell) ==
    IF whence = _SEEK_SET THEN pos
    ELSE IF whence = _SEEK_CUR THEN tell + pos
    ELSE FileLength + pos

BadSeek(pos, whence, tell) ==
    \/ whence \notin {_SEEK_SET, _SEEK_CUR, _SEEK_END}
    \/ SeekTarget(pos, whence, tell) < 0

\* C17: seek(pos, whence) with a whence that is none of the three, or aiming at
\* a negative position, raises IOError and leaves cursor and look-ahead buffer
\* as they were; a read after it returns what it would have returned before it.
C17_FailedSeek ==
    \A r \in Readers :
        /\ (res.op = "seek" /\ res.who = r /\ BadSeek(res.arg[1], res.arg[2], res.tell))
              => /\ res.err = "IOError"
                 /\ gout[r].position = res.tell
                 /\ gout[r].buffer = res.buffer
        /\ \A pos \in (-MaxPos)..MaxPos, whence \in 0..3 :
              BadSeek(pos, whence, gout[r].position) =>
                  \E s \in {GridOut_seek(RCtx(gout[r]), pos, whence)} :
                      /\ s.err = "IOError"
                      /\ s.g.position = gout[r].position
                      /\ s.g.buffer = gout[r].buffer
        /\ (/\ res.op = "read" /\ res.who = r /\ res.prev = <<"seek", "IOError">>
            /\ res.tell <= FileLength)
              => /\ res.err = "ok"
                 /\ res.out = Slice(log[1].sent, res.tell, Clamped(res.arg[1], res.tell))

C17_Witness ==
    /\ res.op = "seek" /\ res.who = 1 /\ res.err = "IOError"
    /\ res.info = <<22, "pos">>
    /\ res.arg[2] = _SEEK_END
    /\ res.buffer # EMPTY /\ res.tell > 0
    /\ gout[1].buffer = res.buffer /\ gout[1].position = res.tell

\* C9: once chunk documents of a finalized file are deleted, a read whose byte
\* range needs a deleted chunk raises CorruptGridFile, and a read that returns
\* returns exactly the bytes written at its range, never fewer or others.
Present(n) == \E i \in 1..Len(chunks) : chunks[i].files_id = FileId /\ chunks[i].n = n

NeedsDeleted(n, tell) ==
    \E k \in tell..(tell + Clamped(n, tell) - 1) : ~Present(k \div FileChunkSize)

C9_DeletedChunk ==
    res.op = "read" =>
        /\ NeedsDeleted(res.arg[1], res.tell) => res.err = "CorruptGridFile"
        /\ res.err = "ok" => res.out = Slice(log[1].sent, res.tell, Clamped(res.arg[1], res.tell))

C9_Witness ==
    /\ res.op = "read" /\ res.err = "CorruptGridFile"
    /\ res.buffer # EMPTY
    /\ res.info = <<"no chunk", 1>>
    /\ NeedsDeleted(res.arg[1], res.tell)
    /\ Present(0)

\* C10: while a non-empty chunk document sits at an index at or beyond
\* ceil(length / chunkSize), every read that reaches the declared length raises
\* CorruptGridFile naming the expected chunk count, whatever other extra chunks
\* there are and in whatever order they were inserted.
NonEmptyExtra ==
    \E i \in 1..Len(chunks) :
        /\ chunks[i].files_id = FileId
        /\ chunks[i].n >= DeclaredChunks
        /\ chunks[i].data # EMPTY

ReachesEnd(n, tell) == n # 0 /\ (n < 0 \/ tell + n >= FileLength)

C10_ExtraChunk ==
    (res.op = "read" /\ NonEmptyExtra /\ ReachesEnd(res.arg[1], res.tell))
    => /\ res.err = "CorruptGridFile"
       /\ Len(res.info) = 3
       /\ res.info[1] = "extra chunk"
       /\ res.info[2] = DeclaredChunks

\* C11: readline(n) at a cursor within the file returns the bytes from the
\* cursor up to and including the first newline among the next m bytes, m being
\* n clamped to what remains, or those m bytes when none of them is a newline;
\* the result is at most m bytes and the cursor advances by its length.
C11_Readline ==
    (res.op = "readline" /\ res.tell <= FileLength) =>
        LET m == Clamped(res.arg[1], res.tell)
            window == Slice(log[1].sent, res.tell, m)
            nl == Find(window, m)
        IN  /\ res.err = "ok"
            /\ res.out = IF nl # -1 THEN Take(window, nl + 1) ELSE window
            /\ Len(res.out) <= m
            /\ gout[res.who].position = res.tell + Len(res.out)

\* C14: write() on a writer closed by close() or abort() raises the
\* write-after-close error (ValueError) and changes nothing: no chunk document,
\* and the writer's buffer, chunk counter, position and digest stay as they were.
C14_WriteAfterClose ==
    /\ \A w \in Writers :
          gin[w].closed =>
              \A data \in BytesUpTo(MaxChunk) :
                  GridIn_write(WCtx(w), data) = Raise(WCtx(w), "ValueError")
    /\ (res.op = "write" /\ (log[res.who].closed_ok \/ log[res.who].aborted))
          => res.err = "ValueError"

C14_Witness ==
    /\ res.op = "write" /\ res.who = 1 /\ res.err = "ValueError"
    /\ res.arg # EMPTY
    /\ log[1].closed_ok /\ ~log[1].aborted
    /\ Len(MyChunks(1)) >= 2
    /\ gin[1].closed

\* C15: close() on a closed writer raises nothing and changes nothing, neither
\* the writer nor the chunks nor the files collection (so the stored length and
\* digest stay); no close() of the session fails, and the files collection never
\* holds more than one document of the writer.
C15_CloseIdempotent ==
    \A w \in Writers :
        /\ gin[w].closed => GridIn_close(WCtx(w)) = WCtx(w)
        /\ log[w].failed_closes = 0
        /\ Len(MyFiles(w)) <= 1
        /\ (res.op = "close" /\ res.who = w) => (res.err = "ok" /\ gin[w].closed)

\* close(), abort(), close(): the last close() found the writer closed and did
\* not store the file document again
C15_Witness ==
    /\ res.op = "close" /\ res.who = 1 /\ res.err = "ok"
    /\ log[1].closed_ok /\ log[1].aborted
    /\ log[1].sent # EMPTY
    /\ MyFiles(1) = <<>>
    /\ gin[1].closed

\* the chunking fields of the stored file documents
Chunking(docs) ==
    [i \in 1..Len(docs) |-> <<docs[i]["_id"], docs[i]["chunkSize"], docs[i]["length"]>>]

\* C18: once the writer is closed, setting an attribute of it, whatever its
\* name, leaves _id, chunkSize and length of the stored file document as they are.
C18_ChunkingFrozen ==
    [][\A w \in Writers :
          (res'.op = "setattr" /\ res'.who = w /\ gin[w].closed)
              => Chunking(files') = Chunking(files)
      ]_vars

----------------------------------------------------------------------------
(* Two writers on one _id (SpecRace).                                      *)

NoAbort == \A w \in Writers : ~log[w].aborted

\* the call just made by w tried an insert on a writer no close() had failed on
\* before, and failed
FirstFailure(w) ==
    /\ res.who = w
    /\ res.op \in {"write", "close"}
    /\ res.err \notin {"ok", "ValueError"}
    /\ log[w].failed_closes = IF res.op = "close" THEN 1 ELSE 0

\* C12: two writers given the same _id, their write() and close() calls
\* interleaved in any order and neither aborted: at most one close() succeeds;
\* a close() that follows the other writer's successful close() fails, and the
\* failure of a colliding insert is FileExists.
C12_OneCloseWins ==
    NoAbort =>
        /\ ~(log[1].closed_ok /\ log[2].closed_ok)
        /\ \A w \in Writers :
              /\ FirstFailure(w) => res.err = "FileExists"
              /\ (res.op = "close" /\ res.who = w /\ \E v \in Writers \ {w} : log[v].closed_ok)
                    => res.err # "ok"

C12_Witness ==
    /\ NoAbort
    /\ res.op = "close" /\ res.who = 2 /\ res.err = "FileExists"
    /\ log[1].closed_ok
    /\ log[1].sent # EMPTY /\ log[2].sent # EMPTY
    /\ Len(FilesOf(files, FileId)) = 1

----------------------------------------------------------------------------
(* The reader and its file document (SpecNoFile).                          *)

Resolved(r) == gout[r].file # <<>>

\* C13: a read or a property access on a reader that has not resolved its file
\* document, when the files collection has none for its id, raises NoFile;
\* constructing a reader and tell() raise nothing and resolve nothing; a reader
\* that has resolved its document keeps it and never asks again, even once the
\* document is gone from the collection.
C13_LazyFile ==
    [][\A r \in Readers :
          res'.who = r =>
            /\ (/\ res'.op \in {"read", "get"}
                /\ ~Resolved(r)
                /\ FilesOf(files, gout[r].file_id) = <<>>)
                  => (res'.err = "NoFile" /\ gout'[r].file = <<>>)
            /\ res'.op = "open" => (res'.err = "ok" /\ gout'[r].file = <<>>)
            /\ res'.op = "tell" =>
                  /\ res'.err = "ok"
                  /\ res'.out = <<gout[r].position>>
                  /\ gout'[r] = gout[r]
            /\ (Resolved(r) /\ res'.op # "open")
                  => (gout'[r].file = gout[r].file /\ res'.err # "NoFile")
      ]_vars

C13_Witness ==
    /\ res.op = "read" /\ res.err = "NoFile" /\ res.info = <<FileId>>
    /\ res.prev = <<"tell", "ok">>
    /\ FilesOf(files, FileId) = <<>>
    /\ gout[1].file = <<>>

----------------------------------------------------------------------------
(* The chunk iterator (SpecIter).                                          *)

RECURSIVE Concat(_)
Concat(payloads) ==
    IF payloads = <<>> THEN EMPTY ELSE Head(payloads) \o Concat(Tail(payloads))

\* the bytes the writer stored at chunk index n
ChunkBytes(n) == Slice(log[1].sent, n * FileChunkSize, FileChunkSize)

\* C16: an iterator over a finalized file yields the data of the chunk documents
\* at indices 0, 1, 2, ... in that order, ceil(length / chunkSize) of them, which
\* together are the bytes written; from then on every step raises StopIteration;
\* a step whose index has no chunk document raises CorruptGridFile.
C16_Iterator ==
    \A r \in Readers :
        giter[r].open =>
            /\ giter[r].max_chunk = DeclaredChunks
            /\ Len(giter[r].yielded) = giter[r].current_chunk
            /\ Len(giter[r].yielded) <= DeclaredChunks
            /\ \A k \in 1..Len(giter[r].yielded) : giter[r].yielded[k] = ChunkBytes(k - 1)
            /\ giter[r].stops > 0 =>
                  /\ Len(giter[r].yielded) = DeclaredChunks
                  /\ Concat(giter[r].yielded) = log[1].sent
            /\ (res.op = "next" /\ res.who = r) =>
                  IF res.tell >= DeclaredChunks
                  THEN res.err = "StopIteration" /\ giter[r].current_chunk = res.tell
                  ELSE IF ~Present(res.tell)
                  THEN /\ res.err = "CorruptGridFile"
                       /\ res.info = <<"no chunk", res.tell>>
                       /\ giter[r].current_chunk = res.tell
                  ELSE /\ res.err = "ok"
                       /\ res.out = ChunkBytes(res.tell)
                       /\ giter[r].current_chunk = res.tell + 1

C16_Witness ==
    /\ res.op = "next" /\ res.who = 1 /\ res.err = "StopIteration"
    /\ giter[1].stops = MaxStops
    /\ Len(giter[1].yielded) >= 2
    /\ Len(giter[1].yielded[Len(giter[1].yielded)]) < FileChunkSize
    /\ Concat(giter[1].yielded) = log[1].sent

----------------------------------------------------------------------------
(* Readers side by side (SpecShared).                                      *)

\* C19: with the calls of two readers of one finalized file and of an iterator
\* interleaved, a call of one reader changes neither the other reader nor its
\* iterator nor any document of the store, and every read within the file and
\* every payload of the iterator is what the file alone determines.
C19_PrivateReaders ==
    [][\A r \in Readers :
          (res'.who = r /\ res'.op \in {"read", "readline", "seek", "iter", "next"}) =>
            /\ \A q \in Readers \ {r} : gout'[q] = gout[q] /\ giter'[q] = giter[q]
            /\ chunks' = chunks
            /\ files' = files
            /\ (res'.op = "read" /\ res'.tell <= FileLength) =>
                  /\ res'.err = "ok"
                  /\ res'.out = Slice(log[1].sent, res'.tell, Clamped(res'.arg[1], res'.tell))
            /\ (res'.op = "next" /\ res'.err = "ok") => res'.out = ChunkBytes(res'.tell)
      ]_vars

C19_Witness ==
    /\ res.op = "read" /\ res.who = 2 /\ res.err = "ok"
    /\ res.prev = <<"readline", "ok">>
    /\ res.tell = 1 /\ Len(res.out) = 1
    /\ gout[1].position = 1 /\ gout[1].buffer # EMPTY
    /\ giter[2].open /\ giter[2].current_chunk = 1

----------------------------------------------------------------------------
(* Chunk documents that are too short (SpecTruncated).                     *)

\* the bytes chunk document n of the file holds now
StoredLen(n) ==
    LET doc == find_one(chunks, <<<<"files_id", "eq", FileId>>, <<"n", "eq", n>>>>)
    IN  IF doc = <<>> THEN 0 ELSE Len(doc[1].data)

NeedsMissing(n, tell) ==
    \E k \in tell..(tell + Clamped(n, tell) - 1) :
        k % FileChunkSize >= StoredLen(k \div FileChunkSize)

----------------------------------------------------------------------------
(* A data source that raises (SpecStream).                                 *)

\* C21: when the data source raises while write() drains it, no chunk document
\* of the id remains, the writer is closed and no file document of the id is
\* there; the close() that follows (in put(): the finally block) stores none.
C21_SourceRaises ==
    [][/\ (res'.op \in {"write_from", "put"} /\ res'.err = "SourceError") =>
             /\ ChunksOf(chunks', FileId) = <<>>
             /\ gin'[res'.who].closed
             /\ FilesOf(files', FileId) = <<>>
       /\ (res.op = "write_from" /\ res.err = "SourceError" /\ res'.op = "close") =>
             FilesOf(files', FileId) = <<>>
      ]_vars

----------------------------------------------------------------------------
(* The file document comes last (Spec).                                    *)

\* C22: in one writer session nothing else deletes from: a file document of the
\* writer's id in the store has all its ceil(length / chunkSize) chunk
\* documents in the store; while the writer is open there is no file document
\* of its id, whatever chunks there are, and a fresh reader of the id gets
\* NoFile.
C22_FileAfterChunks ==
    /\ \A i \in 1..Len(files) :
          files[i]["_id"] = FileId =>
              \A n \in 0..(CeilDiv(files[i]["length"], files[i]["chunkSize"]) - 1) :
                  Present(n)
    /\ ~gin[1].closed =>
          /\ FilesOf(files, FileId) = <<>>
          /\ res.op = "readback" => res.err = "NoFile"

C22_Witness ==
    /\ ~gin[1].closed
    /\ Len(ChunksOf(chunks, FileId)) >= 2
    /\ gin[1].buffer # EMPTY
    /\ res.op = "readback" /\ res.err = "NoFile"

----------------------------------------------------------------------------
(* Seek and the look-ahead buffer (SpecChanged).                           *)

\* the bytes the chunk documents of the file hold now, from index n on
RECURSIVE StoredFrom(_, _)
StoredFrom(coll, n) ==
    LET doc == find_one(coll, <<<<"files_id", "eq", FileId>>, <<"n", "eq", n>>>>)
    IN  IF doc = <<>> THEN EMPTY ELSE doc[1].data \o StoredFrom(coll, n + 1)

\* C23: a seek(pos, whence) that returns has set the cursor to pos, cursor + pos
\* or length + pos and emptied the look-ahead buffer; the read that follows it
\* returns the bytes the chunk documents hold at that moment, whatever was
\* buffered before the seek.
C23_SeekRefetches ==
    [][\A r \in Readers :
          /\ (res'.op = "seek" /\ res'.who = r /\ res'.err = "ok") =>
                /\ gout'[r].position = SeekTarget(res'.arg[1], res'.arg[2], gout[r].position)
                /\ gout'[r].buffer = EMPTY
          /\ (res'.op = "read" /\ res'.who = r /\ res.op = "seek" /\ res.err = "ok"
                /\ gout[r].position <= FileLength) =>
                /\ res'.err = "ok"
                /\ res'.out = Slice(StoredFrom(chunks, 0), gout[r].position,
                                    Clamped(res'.arg[1], gout[r].position))
      ]_vars

\* a seek has just dropped a buffer whose bytes the store holds no more
C23_Witness ==
    /\ res.op = "seek" /\ res.err = "ok" /\ res.who = 1
    /\ res.buffer # EMPTY
    /\ res.tell + Len(res.buffer) > gout[1].position
    /\ gout[1].position >= res.tell
    /\ res.buffer # Slice(StoredFrom(chunks, 0), res.tell, Len(res.buffer))
    /\ gout[1].buffer = EMPTY
    /\ gout[1].position % FileChunkSize # 0

----------------------------------------------------------------------------
(* What the losing writer leaves behind (SpecRace).                        *)

\* GridOut(fs, FileId).read() on the store as it is now
FreshRead == GridOut_read(RCtx(GridOut_init(FileId, <<>>)), -1)

\* C24: two writers given the same _id, write() and close() calls interleaved in
\* any order, neither aborted: once the close() of one has returned, a fresh
\* reader of the id reads exactly the bytes that writer wrote.
C24_WinnerReadsBack ==
    NoAbort =>
        \A w \in Writers :
            log[w].closed_ok =>
                \E s \in {FreshRead} : s.err = "ok" /\ s.out = log[w].sent

\* the chunk documents writer v stored for the bytes it wrote
ChunksWrittenBy(coll, v) ==
    SelectSeq(coll, LAMBDA d : /\ d.files_id = gin[v].file["_id"]
                               /\ d.n < CeilDiv(Len(log[v].sent), ChunkSize(v)))

\* C25: abort() of a writer whose _id is that of a file another writer has
\* finalized, and which finalized nothing itself, leaves the file document and
\* the chunk documents of that file in the store, and the file reads back as
\* before.
C25_AbortSparesOthers ==
    [][\A w \in Writers, v \in Writers :
          (/\ res'.op = "abort" /\ res'.who = w /\ v # w
           /\ ~log[w].closed_ok
           /\ Finalized(v)) =>
              /\ FilesOf(files', FileId) = FilesOf(files, FileId)
              /\ ChunksWrittenBy(chunks', v) = ChunksWrittenBy(chunks, v)
              /\ FreshRead' = FreshRead
      ]_vars

----------------------------------------------------------------------------
(* The look-ahead buffer (SpecBuffer).                                     *)

\* the look-ahead buffer of reader r holds the file's bytes from its cursor on
BufferAtCursor(r) ==
    gout[r].buffer = Slice(log[1].sent, gout[r].position, Len(gout[r].buffer))

\* the look-ahead buffer of reader r ends at the end of a chunk or of the file
BufferToBoundary(r) ==
    LET end == gout[r].position + Len(gout[r].buffer)
    IN  end % FileChunkSize = 0 \/ end = FileLength

\* a read or readline that returned gave the file's bytes from the cursor it
\* started at and left the cursor behind them
Adjacent ==
    (res.op \in {"read", "readline"} /\ res.err = "ok") =>
        /\ res.out = Slice(log[1].sent, res.tell, Len(res.out))
        /\ gout[res.who].position = res.tell + Len(res.out)

\* C26: on an intact finalized file, after reads, readlines and seeks, the
\* look-ahead buffer is the file's bytes from the cursor on, and when it holds
\* bytes it ends at a multiple of the chunk size or at the file's length;
\* reads and readlines return adjacent slices of the file.
C26_LookAhead ==
    /\ \A r \in Readers :
          /\ BufferAtCursor(r)
          /\ gout[r].buffer # EMPTY => BufferToBoundary(r)
    /\ Adjacent

\* The same with the buffer's end at a boundary whether or not it holds bytes,
\* after calls that returned, the cursor within the file.
C26_AnyCursor ==
    (res.err = "ok" /\ res.prev[2] = "ok") =>
        /\ \A r \in Readers :
              gout[r].position <= FileLength => BufferAtCursor(r) /\ BufferToBoundary(r)
        /\ Adjacent

C26_Witness ==
    /\ res.op = "readline" /\ res.err = "ok" /\ res.prev = <<"read", "ok">>
    /\ res.buffer # EMPTY
    /\ res.tell > 0
    /\ gout[1].buffer # EMPTY
    /\ gout[1].position + Len(gout[1].buffer) = FileLength
    /\ FileLength % FileChunkSize # 0
    /\ res.out = Slice(log[1].sent, res.tell, Len(res.out))

====
